---- MODULE Spec2Model ----
(***************************************************************************)
(* Innovation Radar pipeline (michal-palinski/disco): the search-results   *)
(* store, the unified article store, and the scripts that run over them.   *)
(* Every script is a single process run by an operator; one script runs    *)
(* at a time (pc names the running script and its position).               *)
(*                                                                         *)
(* A nullable SQL column holds NULL (the empty tuple) or Some(v).  A text  *)
(* value (article text, summary) is represented by its length, the only    *)
(* attribute of it that the scripts inspect.                               *)
(***************************************************************************)
EXTENDS Integers, Sequences, FiniteSets, TLC

VARIABLES
    search_results,   \* google_search/innovation_radar.db, table search_results
    articles,         \* innovation_radar_unified.db, table articles
    csv,              \* the Media Cloud CSV file (external feed, fixed)
    pc,               \* which script is running, and where
    loc,              \* the running script's local variables
    runs,             \* number of script runs started so far
    prev,             \* history: per importer, the counters of its last finished run
    batches,          \* the batch jobs held by the external batch endpoint, by handle
    files,            \* side files: batch_requests.jsonl, batch_info.txt, ...
    columns           \* the columns of table articles that a stage script has added

----------------------------------------------------------------------------
(* Bounds of the model *)

MaxCsvRows == 2       \* rows of the Media Cloud CSV
MaxPageItems == 1     \* items on one page of search results
MaxPages == 1         \* pages one run_search call fetches
MaxRuns == 2          \* script runs in one behaviour
MaxFeedRows == 3      \* rows of the Media Cloud CSV when only the CSV importers run
MaxRecords == 2       \* rows of articles when the stage scripts run
MaxBatches == 1       \* batch jobs created at the external endpoint
MaxStageRuns == 3     \* stage script runs in one behaviour
MaxBatchSize == 5     \* requests of the batch job when only its reconciliation runs
SpareRecords == 2     \* records beyond the ten that a clustering run needs
MaxAmount == 2        \* the N of a date string 'N <unit> ago'

\* Thresholds of the scripts
MinScrapedLen == 100  \* scrape_articles.py: len(text) > 100
MinTextLen == 200     \* summarize_*.py: LENGTH(text) > 200
MinDocuments == 10
MinSummaryLen == 50   \* filter_cultural_articles.py: LENGTH(summary) > 50

----------------------------------------------------------------------------
(* SQL values *)

NULL == <<>>
Some(v) == <<v>>
Val(x) == x[1]

Urls == {"u1", "u2"}
EmptyUrl == ""

RECURSIVE SeqsUpTo(_, _)
SeqsUpTo(S, n) ==
    IF n = 0 THEN {<<>>}
    ELSE LET shorter == SeqsUpTo(S, n - 1)
         IN  shorter \cup {Append(s, x) : s \in {t \in shorter : Len(t) = n - 1}, x \in S}

Idle == [script |-> "none"]

\* No side file has been written yet.
NoFiles ==
    [batch_requests |-> NULL, batch_info |-> NULL, cultural_filter_batch_info |-> NULL,
     embeddings |-> NULL]

----------------------------------------------------------------------------
(* The stores *)

\* search_results.link is UNIQUE (google_search.py), articles.url is UNIQUE
\* (build_unified_db.py): an INSERT whose key is present raises IntegrityError.
UniqueViolation(table, col, v) == \E i \in DOMAIN table : table[i][col] = v

\* An INSERT without the UNIQUE constraint: every row is appended.
InsertRowNoUnique(table, col, row) == [ok |-> TRUE, table |-> Append(table, row)]

\* cursor.execute('INSERT INTO ...') followed by conn.commit(): the row is
\* appended with the next AUTOINCREMENT id, or IntegrityError is raised and the
\* table is left as it was.
InsertRow(table, col, row) ==
    IF UniqueViolation(table, col, row[col])
    THEN [ok |-> FALSE, table |-> table]
    ELSE [ok |-> TRUE, table |-> Append(table, row)]

SearchRow(title, link, search_type) ==
    [title |-> title, link |-> link, search_type |-> search_type]

\* The columns that the stage scripts add to table articles.
StageColumns ==
    {"text", "scraped_at", "scrape_status",
     "summary", "summarized_at", "summary_status", "batch_id",
     "cultural_relevant", "filter_batch_id"}

\* A row of articles as build_unified_db.py inserts it: the stage columns, added
\* later by ALTER TABLE, read as NULL.
ArticleRow(title, url, search_type) ==
    [title |-> title, url |-> url, search_type |-> search_type,
     text |-> NULL, scraped_at |-> NULL, scrape_status |-> NULL,
     summary |-> NULL, summarized_at |-> NULL, summary_status |-> NULL,
     batch_id |-> NULL, cultural_relevant |-> NULL, filter_batch_id |-> NULL,
     topic |-> NULL]

----------------------------------------------------------------------------
(* google_search.py: run_search for 'news', then for 'all' *)

\* page_items is what the "Page n processed: k results" lines add up to.
SearchLocals(search_type) ==
    [script |-> "google_search", search_type |-> search_type, start |-> 0,
     new_count |-> 0, duplicate_count |-> 0, total_pages_fetched |-> 0,
     page_items |-> 0]


\* The operator starts a script.
Launch == pc = "idle" /\ runs < MaxRuns /\ runs' = runs + 1

GoogleSearchStart ==
    /\ Launch
    /\ pc' = "run_search"
    /\ loc' = SearchLocals("news")
    /\ UNCHANGED <<search_results, articles, csv, prev>>

\* run_search returns; the script goes on to the 'all' search or ends.
SearchReturn(frame) ==
    IF frame.search_type = "news"
    THEN /\ pc' = "run_search"
         /\ loc' = SearchLocals("all")
    ELSE /\ pc' = "idle"
         /\ loc' = Idle

\* The pagination loop breaks.  With summary, the step ends where run_search
\* prints its summary, the counts still in the frame; without, it runs on
\* through the return.
SearchBreak(frame, summary) ==
    IF summary
    THEN /\ pc' = "search_summary"
         /\ loc' = frame
    ELSE SearchReturn(frame)

\* The summary is printed and the counts are returned.
SearchSummary ==
    /\ pc = "search_summary"
    /\ SearchReturn(loc)
    /\ UNCHANGED <<search_results, articles, csv, runs, prev>>

\* The page has no results (or the results key is missing), or the request
\* raises: the pagination loop breaks.
Stops(summary) ==
    /\ pc = "run_search"
    /\ SearchBreak(loc, summary)
    /\ UNCHANGED <<search_results, articles, csv, runs, prev>>

SearchStop == Stops(FALSE)

SearchStopSummary == Stops(TRUE)

RECURSIVE InsertPage(_, _, _, _)
\* The loop over page_results: each item is inserted and committed, a duplicate
\* link is counted.
InsertPage(table, items, search_type, counts) ==
    IF items = <<>> THEN [table |-> table, counts |-> counts]
    ELSE LET r == InsertRow(table, "link",
                            SearchRow(Head(items).title, Head(items).link, search_type))
         IN  InsertPage(r.table, Tail(items), search_type,
                        IF r.ok THEN [counts EXCEPT !.new_count = @ + 1]
                                ELSE [counts EXCEPT !.duplicate_count = @ + 1])

\* The items of a page that the loop gets through: all of them, or those
\* before the item whose insert raises an error other than IntegrityError,
\* which the except around the whole page turns into a break.
\* Where the step runs on through the return the counts are dropped, and a
\* page cut short is the same step as a shorter last page (or an empty one),
\* so only whole pages are enumerated there.
Processed(items, summary) == IF summary THEN 0..Len(items) ELSE {Len(items)}

\* article.get('title', ''), article.get('link', '')
PageItems == [title : {"t1"}, link : Urls \cup {EmptyUrl}]

Pages(summary) ==
    /\ pc = "run_search"
    /\ loc.total_pages_fetched < MaxPages
    /\ \E items \in SeqsUpTo(PageItems, MaxPageItems) \ {<<>>}, next \in BOOLEAN :
         \E handled \in Processed(items, summary) :
         LET r == InsertPage(search_results, SubSeq(items, 1, handled),
                             loc.search_type,
                             [new_count |-> loc.new_count,
                              duplicate_count |-> loc.duplicate_count])
             counted == [loc EXCEPT !.new_count = r.counts.new_count,
                                    !.duplicate_count = r.counts.duplicate_count,
                                    !.total_pages_fetched = @ + 1,
                                    !.page_items = @ + Len(items)]
         IN  /\ search_results' = r.table
             /\ IF handled = Len(items) /\ next
                THEN /\ pc' = "run_search"
                     /\ loc' = [counted EXCEPT !.start = @ + 10]
                ELSE SearchBreak(counted, summary)
    /\ UNCHANGED <<articles, csv, runs, prev>>

SearchPage == Pages(FALSE)

SearchPageSummary == Pages(TRUE)

----------------------------------------------------------------------------
(* google_search.py: parse_relative_date and the date that is stored *)

\* The date strings of the feed, by what they say: an absolute date (a time,
\* in seconds), 'N <unit> ago', a word, a string that is no date, nothing.
Units == {"second", "minute", "hour", "day", "week", "month", "year"}

DateStrings ==
    [form : {"absolute"}, at : {50000000}]
    \cup [form : {"ago"}, amount : 0..MaxAmount, unit : Units]
    \cup [form : {"word"}, word : {"yesterday", "today", "just now"}]
    \cup [form : {"other"}, text : {"n/a"}]
    \cup {[form |-> "empty"]}

\* datetime.now(), in seconds.
Times == {100000000, 100000060}

\* timedelta(<unit>=amount) in seconds; a month is 30 days, a year 365 days.
TimeDelta(unit, amount) ==
    CASE unit = "second" -> amount
      [] unit = "minute" -> amount * 60
      [] unit = "hour" -> amount * 3600
      [] unit = "day" -> amount * 86400
      [] unit = "week" -> amount * 7 * 86400
      [] unit = "month" -> amount * 30 * 86400
      [] unit = "year" -> amount * 365 * 86400

\* A parse in which 'yesterday' is taken for today.
ParseRelativeDateNoYesterday(date_string, now) ==
    IF date_string.form = "empty" THEN NULL
    ELSE CASE date_string.form = "absolute" -> Some(date_string.at)
           [] date_string.form = "ago" ->
                Some(now - TimeDelta(date_string.unit, date_string.amount))
           [] date_string.form = "word" -> Some(now)
           [] OTHER -> NULL

\* parse_relative_date: nothing for an empty string; what dateutil's parser
\* reads when it reads the string; else now minus the amount of 'N <unit>
\* ago'; else now minus a day for 'yesterday', now for 'today' or 'just now';
\* else nothing.
ParseRelativeDate(date_string, now) ==
    IF date_string.form = "empty" THEN NULL
    ELSE CASE date_string.form = "absolute" -> Some(date_string.at)
           [] date_string.form = "ago" ->
                Some(now - TimeDelta(date_string.unit, date_string.amount))
           [] date_string.form = "word" /\ date_string.word = "yesterday" ->
                Some(now - TimeDelta("day", 1))
           [] date_string.form = "word" -> Some(now)
           [] OTHER -> NULL

\* parsed_date.isoformat() if parsed_date else date_string
DateToStore(date_string, now) ==
    LET parsed_date == ParseRelativeDate(date_string, now)
    IN  IF parsed_date # NULL THEN [iso |-> Val(parsed_date)] ELSE date_string

\* A page of one item that carries a date: the date is parsed, the row
\* inserted and committed (a duplicate link is counted); then the next page
\* or the end of the search.  loc.last keeps what the item's line of output
\* shows: the date string, the time of the parse, whether the row was added.
SearchPageDated ==
    /\ pc = "run_search"
    /\ loc.total_pages_fetched < MaxPages
    /\ \E item \in [title : {"t1"}, link : Urls], date_string \in DateStrings,
          now \in Times,
          next \in BOOLEAN :
         LET row == SearchRow(item.title, item.link, loc.search_type)
                      @@ [date |-> DateToStore(date_string, now)]
             r == InsertRow(search_results, "link", row)
             counted == [loc EXCEPT !.new_count = IF r.ok THEN @ + 1 ELSE @,
                                    !.duplicate_count = IF r.ok THEN @ ELSE @ + 1,
                                    !.total_pages_fetched = @ + 1,
                                    !.page_items = @ + 1]
             last == [last |-> [link |-> item.link, date_string |-> date_string,
                                now |-> now, added |-> r.ok]]
         IN  /\ search_results' = r.table
             /\ IF next
                THEN /\ pc' = "run_search"
                     /\ loc' = [counted EXCEPT !.start = @ + 10] @@ last
                ELSE IF loc.search_type = "news"
                THEN /\ pc' = "run_search"
                     /\ loc' = SearchLocals("all") @@ last
                ELSE /\ pc' = "idle"
                     /\ loc' = Idle @@ last
    /\ UNCHANGED <<articles, csv, runs, prev>>

DatesNext ==
    \/ SearchPageDated /\ UNCHANGED <<batches, files, columns>>
    \/ SearchStop      /\ UNCHANGED <<batches, files, columns>>

----------------------------------------------------------------------------
(* integrate_media_cloud.py: the CSV into search_results *)

Importers == {"integrate_media_cloud", "build_unified_db"}

IntegrateStart ==
    /\ Launch
    /\ pc' = "integrate"
    /\ loc' = [script |-> "integrate_media_cloud", row |-> 1,
               new_count |-> 0, duplicate_count |-> 0, error_count |-> 0,
               before |-> search_results]
    /\ UNCHANGED <<search_results, articles, csv, prev>>

IntegrateRow ==
    /\ pc = "integrate"
    /\ loc.row <= Len(csv)
    /\ LET row == csv[loc.row]
           r == InsertRow(search_results, "link",
                          SearchRow(row.title, row.url, "media_cloud"))
       IN  /\ search_results' = r.table
           /\ loc' = IF r.ok
                     THEN [loc EXCEPT !.row = @ + 1, !.new_count = @ + 1]
                     ELSE [loc EXCEPT !.row = @ + 1, !.duplicate_count = @ + 1]
    /\ UNCHANGED <<articles, csv, pc, runs, prev>>

IntegrateEnd ==
    /\ pc = "integrate"
    /\ loc.row > Len(csv)
    /\ prev' = [prev EXCEPT !["integrate_media_cloud"] =
                   Some([feed |-> Len(csv), added |-> loc.new_count,
                         duplicate |-> loc.duplicate_count, errors |-> loc.error_count])]
    /\ pc' = "idle"
    /\ loc' = Idle
    /\ UNCHANGED <<search_results, articles, csv, runs>>

----------------------------------------------------------------------------
(* build_unified_db.py: search_results and the CSV into a new articles table *)

ZeroStats == [f \in {"google_news", "google_all", "media_cloud"} |->
                [added |-> 0, skipped |-> 0, errors |-> 0]]

\* WHERE link IS NOT NULL AND link != '' ORDER BY created_at
RECURSIVE GoogleRows(_)
GoogleRows(table) ==
    IF table = <<>> THEN <<>>
    ELSE IF Head(table).link # EmptyUrl
         THEN <<Head(table)>> \o GoogleRows(Tail(table))
         ELSE GoogleRows(Tail(table))

MappedType(search_type) ==
    CASE search_type = "news" -> "google_news"
      [] search_type = "all" -> "google_all"
      [] OTHER -> search_type

\* os.remove(DB_PATH), CREATE TABLE articles: the store starts empty again.
BuildStart ==
    /\ Launch
    /\ articles' = <<>>
    /\ columns' = {}
    /\ pc' = "build_google"
    /\ loc' = [script |-> "build_unified_db", rows |-> GoogleRows(search_results),
               row |-> 1, stats |-> ZeroStats, before |-> articles]
    /\ UNCHANGED <<search_results, csv, prev>>

BuildGoogleRow ==
    /\ pc = "build_google"
    /\ loc.row <= Len(loc.rows)
    /\ LET row == loc.rows[loc.row]
           mapped_type == MappedType(row.search_type)
           r == InsertRow(articles, "url", ArticleRow(row.title, row.link, mapped_type))
       IN  /\ articles' = r.table
           /\ loc' = IF r.ok
                     THEN [loc EXCEPT !.row = @ + 1, !.stats[mapped_type].added = @ + 1]
                     ELSE [loc EXCEPT !.row = @ + 1, !.stats[mapped_type].skipped = @ + 1]
    /\ UNCHANGED <<search_results, csv, pc, runs, prev>>

BuildGoogleEnd ==
    /\ pc = "build_google"
    /\ loc.row > Len(loc.rows)
    /\ pc' = "build_csv"
    /\ loc' = [loc EXCEPT !.row = 1]
    /\ UNCHANGED <<search_results, articles, csv, runs, prev>>

BuildCsvRow ==
    /\ pc = "build_csv"
    /\ loc.row <= Len(csv)
    /\ LET row == csv[loc.row]
           r == InsertRow(articles, "url", ArticleRow(row.title, row.url, "media_cloud"))
       IN  IF row.url = EmptyUrl
           THEN \* if not url: stats['media_cloud']['skipped'] += 1; continue
                /\ loc' = [loc EXCEPT !.row = @ + 1, !.stats["media_cloud"].skipped = @ + 1]
                /\ UNCHANGED articles
           ELSE /\ articles' = r.table
                /\ loc' = IF r.ok
                          THEN [loc EXCEPT !.row = @ + 1,
                                           !.stats["media_cloud"].added = @ + 1]
                          ELSE [loc EXCEPT !.row = @ + 1,
                                           !.stats["media_cloud"].skipped = @ + 1]
    /\ UNCHANGED <<search_results, csv, pc, runs, prev>>

Total(stats, field) ==
    stats["google_news"][field] + stats["google_all"][field] + stats["media_cloud"][field]

BuildEnd ==
    /\ pc = "build_csv"
    /\ loc.row > Len(csv)
    /\ prev' = [prev EXCEPT !["build_unified_db"] =
                   Some([feed |-> Len(loc.rows) + Len(csv),
                         added |-> Total(loc.stats, "added"),
                         duplicate |-> Total(loc.stats, "skipped"),
                         errors |-> Total(loc.stats, "errors")])]
    /\ pc' = "idle"
    /\ loc' = Idle
    /\ UNCHANGED <<search_results, articles, csv, runs>>

----------------------------------------------------------------------------
(* The importers' specification *)

\* row.get('title', '').strip(), row.get('url', '').strip()
CsvRows == [title : {"t2"}, url : Urls \cup {EmptyUrl}]

ImportInit ==
    /\ search_results = <<>>
    /\ articles = <<>>
    /\ csv \in SeqsUpTo(CsvRows, MaxCsvRows)
    /\ pc = "idle"
    /\ loc = Idle
    /\ runs = 0
    /\ prev = [s \in Importers |-> NULL]
    /\ batches = <<>>
    /\ files = NoFiles
    /\ columns = {}

vars == <<search_results, articles, csv, pc, loc, runs, prev, batches, files,
          columns>>

ImportNext ==
    \/ GoogleSearchStart /\ UNCHANGED <<batches, files, columns>>
    \/ SearchStop        /\ UNCHANGED <<batches, files, columns>>
    \/ SearchPage        /\ UNCHANGED <<batches, files, columns>>
    \/ IntegrateStart    /\ UNCHANGED <<batches, files, columns>>
    \/ IntegrateRow      /\ UNCHANGED <<batches, files, columns>>
    \/ IntegrateEnd      /\ UNCHANGED <<batches, files, columns>>
    \/ BuildStart        /\ UNCHANGED <<batches, files>>
    \/ BuildGoogleRow    /\ UNCHANGED <<batches, files, columns>>
    \/ BuildGoogleEnd    /\ UNCHANGED <<batches, files, columns>>
    \/ BuildCsvRow       /\ UNCHANGED <<batches, files, columns>>
    \/ BuildEnd          /\ UNCHANGED <<batches, files, columns>>

SpecImport == ImportInit /\ [][ImportNext]_vars

\* The 'all' search over items that carry a date, after a 'news' search
\* that found nothing.
DatesInit ==
    /\ search_results = <<>>
    /\ articles = <<>>
    /\ csv = <<>>
    /\ pc = "run_search"
    /\ loc = SearchLocals("all")
    /\ runs = 1
    /\ prev = [s \in Importers |-> NULL]
    /\ batches = <<>>
    /\ files = NoFiles
    /\ columns = {}

SpecDates == DatesInit /\ [][DatesNext]_vars

----------------------------------------------------------------------------
(* The CSV importers alone, over longer feeds *)

\* The Google searches have run before (one result stored) or not at all.
FeedInit ==
    /\ search_results \in {<<>>, <<SearchRow("t1", "u1", "news")>>}
    /\ articles = <<>>
    /\ csv \in SeqsUpTo(CsvRows, MaxFeedRows)
    /\ pc = "idle"
    /\ loc = Idle
    /\ runs = 0
    /\ prev = [s \in Importers |-> NULL]
    /\ batches = <<>>
    /\ files = NoFiles
    /\ columns = {}

FeedNext ==
    \/ IntegrateStart    /\ UNCHANGED <<batches, files, columns>>
    \/ IntegrateRow      /\ UNCHANGED <<batches, files, columns>>
    \/ IntegrateEnd      /\ UNCHANGED <<batches, files, columns>>
    \/ BuildStart        /\ UNCHANGED <<batches, files>>
    \/ BuildGoogleRow    /\ UNCHANGED <<batches, files, columns>>
    \/ BuildGoogleEnd    /\ UNCHANGED <<batches, files, columns>>
    \/ BuildCsvRow       /\ UNCHANGED <<batches, files, columns>>
    \/ BuildEnd          /\ UNCHANGED <<batches, files, columns>>

SpecFeed == FeedInit /\ [][FeedNext]_vars

----------------------------------------------------------------------------
(* Stage selection: the WHERE clauses of the stage scripts *)

\* text IS NULL OR text = ''   (a text is represented by its length)
Empty(x) == x = NULL \/ Val(x) = 0

\* A selection that would skip every record a run has already attempted.
NeedsScrapeUntried(a) == Empty(a.text) /\ a.scrape_status = NULL

\* scrape_articles.py: WHERE text IS NULL OR text = ''
NeedsScrape(a) == Empty(a.text)

\* A selection with LENGTH(text) >= 200 in place of LENGTH(text) > 200.
NeedsSummaryLoose(a) ==
    /\ a.text # NULL
    /\ Val(a.text) # 0
    /\ Val(a.text) >= MinTextLen
    /\ Empty(a.summary)

\* summarize_articles.py, summarize_batch_prepare.py, summarize_batch_submit.py:
\* WHERE text IS NOT NULL AND text != '' AND LENGTH(text) > 200
\*   AND (summary IS NULL OR summary = '')
NeedsSummary(a) ==
    /\ a.text # NULL
    /\ Val(a.text) # 0
    /\ Val(a.text) > MinTextLen
    /\ Empty(a.summary)

\* filter_cultural_articles.py: WHERE summary IS NOT NULL AND summary != ''
\*   AND LENGTH(summary) > 50 AND cultural_relevant IS NULL
NeedsFilter(a) ==
    /\ a.summary # NULL
    /\ Val(a.summary) # 0
    /\ Val(a.summary) > MinSummaryLen
    /\ a.cultural_relevant = NULL

\* SELECT id ... ORDER BY id: the ids of the rows, in order; a WHERE clause
\* keeps those whose row satisfies it.
RowIds(table) == [i \in 1..Len(table) |-> i]

Range(seq) == {seq[i] : i \in DOMAIN seq}

\* The timestamp datetime.now().isoformat() writes; its value is not modelled.
Now == Some("ts")

\* A script ends: its report stays on the terminal until the next script is
\* started.
Done(report) == pc' = "done" /\ loc' = report

\* The operator starts a stage script.
Start == pc \in {"idle", "done"} /\ runs < MaxStageRuns /\ runs' = runs + 1

----------------------------------------------------------------------------
(* scrape_articles.py *)

\* What Article(url).download()/parse() gives: an exception, or a text.
ScrapedLens == {MinScrapedLen, MinTextLen, MinTextLen + 1}

ScrapeStart ==
    /\ Start
    /\ pc' = "scrape"
    /\ loc' = [script |-> "scrape_articles",
               selected |-> SelectSeq(RowIds(articles),
                                      LAMBDA i : NeedsScrape(articles[i])),
               idx |-> 1]
    /\ UNCHANGED <<articles, batches, files>>

\* if text and len(text) > 100: text, scraped_at, status 'success'; else
\* status 'no_content'.  Each UPDATE is committed.
ScrapeStore(a, len) ==
    IF len # 0 /\ len > MinScrapedLen
    THEN [a EXCEPT !.text = Some(len), !.scraped_at = Now,
                   !.scrape_status = Some("success")]
    ELSE [a EXCEPT !.scrape_status = Some("no_content")]

\* except Exception: status 'error: <message>'
ScrapeError(a) == [a EXCEPT !.scrape_status = Some("error")]

ScrapeRecord ==
    /\ pc = "scrape"
    /\ loc.idx <= Len(loc.selected)
    /\ LET id == loc.selected[loc.idx]
       IN  \/ \E len \in ScrapedLens :
                articles' = [articles EXCEPT ![id] = ScrapeStore(@, len)]
           \/ articles' = [articles EXCEPT ![id] = ScrapeError(@)]
    /\ loc' = [loc EXCEPT !.idx = @ + 1]
    /\ UNCHANGED <<pc, batches, files>>
    /\ UNCHANGED runs

\* The loop is over: the final summary is shown.
SyncEnd ==
    /\ pc \in {"scrape", "summarize"}
    /\ loc.idx > Len(loc.selected)
    /\ Done(loc @@ [outcome |-> "complete"])
    /\ UNCHANGED <<articles, batches, files>>
    /\ UNCHANGED runs

----------------------------------------------------------------------------
(* summarize_articles.py *)

\* response.choices[0].message.content: a summary, possibly empty.
SummaryLens == {0, MinSummaryLen, MinSummaryLen + 1}

SummarizeStart ==
    /\ Start
    /\ pc' = "summarize"
    /\ loc' = [script |-> "summarize_articles",
               selected |-> SelectSeq(RowIds(articles),
                                      LAMBDA i : NeedsSummary(articles[i])),
               idx |-> 1]
    /\ UNCHANGED <<articles, batches, files>>

\* UPDATE articles SET summary = ?, summarized_at = ?, summary_status = 'success'
SummaryStore(a, len) ==
    [a EXCEPT !.summary = Some(len), !.summarized_at = Now,
              !.summary_status = Some("success")]

\* An error update that would blank the summary as well.
SummaryErrorBlanking(a) ==
    [a EXCEPT !.summary = Some(0), !.summary_status = Some("error")]

\* UPDATE articles SET summary_status = 'error: <message>'
SummaryError(a) == [a EXCEPT !.summary_status = Some("error")]

\* A loop that would stay on a record whose attempt raised.
SummarizeRecordRetrying ==
    /\ pc = "summarize"
    /\ loc.idx <= Len(loc.selected)
    /\ LET id == loc.selected[loc.idx]
       IN  \/ /\ \E len \in SummaryLens :
                   articles' = [articles EXCEPT ![id] = SummaryStore(@, len)]
              /\ loc' = [loc EXCEPT !.idx = @ + 1]
           \/ /\ articles' = [articles EXCEPT ![id] = SummaryError(@)]
              /\ loc' = loc
    /\ UNCHANGED <<pc, batches, files>>
    /\ UNCHANGED runs

SummarizeRecord ==
    /\ pc = "summarize"
    /\ loc.idx <= Len(loc.selected)
    /\ LET id == loc.selected[loc.idx]
       IN  \/ \E len \in SummaryLens :
                articles' = [articles EXCEPT ![id] = SummaryStore(@, len)]
           \/ articles' = [articles EXCEPT ![id] = SummaryError(@)]
    /\ loc' = [loc EXCEPT !.idx = @ + 1]
    /\ UNCHANGED <<pc, batches, files>>
    /\ UNCHANGED runs

----------------------------------------------------------------------------
(* The external batch endpoint *)

\* Batch handles are opaque strings; a handle is represented by its rank in the
\* lexicographic order ORDER BY batch_id DESC uses.
Handles == 1..MaxBatches

\* A job at the endpoint: output_file tells whether the job has an output
\* file, output is the file's content once a script has downloaded it.
NewBatch(kind, requests) ==
    [kind |-> kind, requests |-> requests, status |-> "in_progress",
     output_file |-> FALSE, output |-> NULL]

\* The endpoint has a handle left to give to a new job.
CanCreate == Handles \ DOMAIN batches # {}

\* The answers of the relevance classifier (asked for "YES" or "NO").
Answers == {"yes", "NO"}

\* One line of the output file for a request: a provider error, a response
\* with the message content, or a line the script cannot read (invalid JSON, a
\* response body without choices).
Entries(kind, id) ==
    {[custom_id |-> id, kind |-> "error"]}
    \cup {[custom_id |-> id, kind |-> "ok", content |-> c] :
            c \in IF kind = "summary" THEN {MinSummaryLen + 1} ELSE Answers}

Unreadable(id) == [custom_id |-> id, kind |-> "malformed"]

\* The end of an output file: the line of the last request, readable or not,
\* or no line for it (a failed request is reported in the job's error file,
\* which no script downloads).
LastLines(kind, id) ==
    {<<e>> : e \in Entries(kind, id) \cup {Unreadable(id)}} \cup {<<>>}

RECURSIVE Bundles(_, _)
\* The output files the endpoint can produce for the requests of a job.
Bundles(kind, requests) ==
    IF requests = <<>> THEN {<<>>}
    ELSE IF Len(requests) = 1 THEN LastLines(kind, Head(requests))
    ELSE {<<e>> \o rest : e \in Entries(kind, Head(requests)),
                          rest \in Bundles(kind, Tail(requests))}

\* The endpoint finishes a job: completed with an output file (or with none),
\* or failed, cancelled or expired.  A running script reads the job's state
\* only in its check, poll or process step, so the endpoint's steps are taken
\* while no script is between two such reads (and while a script can still be
\* started to read it).
BatchSettles ==
    /\ \/ pc = "filter_poll"
       \/ pc \in {"idle", "done"} /\ runs < MaxStageRuns
    /\ \E h \in DOMAIN batches :
         /\ batches[h].status = "in_progress"
         /\ \/ batches' = [batches EXCEPT ![h].status = "completed",
                                            ![h].output_file = TRUE]
            \/ batches' = [batches EXCEPT ![h].status = "completed"]
            \/ \E st \in {"failed", "cancelled", "expired"} :
                 batches' = [batches EXCEPT ![h].status = st]
    /\ UNCHANGED <<articles, pc, loc, files>>
    /\ UNCHANGED runs

\* client.files.content(batch.output_file_id): what a download of the output
\* file of job h can give.  The file is fixed when the job completes; what it
\* holds shows at the first download, and every later download reads the same.
Download(h) ==
    IF batches[h].output = NULL
    THEN Bundles(batches[h].kind, batches[h].requests)
    ELSE {Val(batches[h].output)}

\* SELECT DISTINCT <col> FROM articles WHERE <col> IS NOT NULL
\*   ORDER BY <col> DESC LIMIT 1
CurrentBatch(table, col) ==
    LET hs == {Val(table[i][col]) : i \in {j \in DOMAIN table : table[j][col] # NULL}}
    IN  IF hs = {} THEN NULL ELSE Some(CHOOSE h \in hs : \A g \in hs : g <= h)

\* A script stops where it stands: Ctrl-C or a kill in a synchronous loop
\* (between two committed records), a crash after the batch was created, the
\* operator cancelling the polling loop.
Interrupt ==
    /\ \/ pc \in {"scrape", "summarize"} /\ loc.idx <= Len(loc.selected)
       \/ pc \in {"submit_created", "filter_created", "filter_poll"}
    /\ Done(loc @@ [outcome |-> "interrupted"])
    /\ UNCHANGED <<articles, batches, files>>
    /\ UNCHANGED runs

----------------------------------------------------------------------------
(* summarize_batch_prepare.py, summarize_batch_submit.py *)

BatchPrepare ==
    /\ Start
    /\ LET selected == SelectSeq(RowIds(articles), LAMBDA i : NeedsSummary(articles[i]))
       IN  /\ files' = [files EXCEPT !.batch_requests = Some(selected)]
           /\ Done([script |-> "summarize_batch_prepare", selected |-> selected,
                    outcome |-> "prepared"])
    /\ UNCHANGED <<articles, batches>>

\* client.files.create and client.batches.create: the job exists at the
\* endpoint.  (An absent or empty request file makes the script fail here.)
SubmitCreate ==
    /\ Start
    /\ files.batch_requests # NULL
    /\ Val(files.batch_requests) # <<>>
    /\ CanCreate
    /\ \E h \in Handles \ DOMAIN batches :
         /\ batches' = batches @@ (h :> NewBatch("summary", Val(files.batch_requests)))
         /\ pc' = "submit_created"
         /\ loc' = [script |-> "summarize_batch_submit", batch_id |-> h]
    /\ UNCHANGED <<articles, files>>

\* UPDATE articles SET batch_id = ?, summary_status = 'batch_submitted'
\*   WHERE (summary IS NULL OR summary = '') AND text IS NOT NULL AND text != ''
\*     AND LENGTH(text) > 200
MarkSubmitted(table, h) ==
    [i \in DOMAIN table |->
        IF NeedsSummary(table[i])
        THEN [table[i] EXCEPT !.batch_id = Some(h),
                              !.summary_status = Some("batch_submitted")]
        ELSE table[i]]

SubmitMark ==
    /\ pc = "submit_created"
    /\ articles' = MarkSubmitted(articles, loc.batch_id)
    /\ files' = [files EXCEPT !.batch_info = Some(loc.batch_id)]
    /\ Done(loc @@ [outcome |-> "submitted"])
    /\ UNCHANGED batches
    /\ UNCHANGED runs

----------------------------------------------------------------------------
(* summarize_batch_check.py, summarize_batch_process.py *)

BatchCheck ==
    /\ Start
    /\ LET found == CurrentBatch(articles, "batch_id")
       IN  IF found = NULL
           THEN Done([script |-> "summarize_batch_check", outcome |-> "no_batch"])
           ELSE Done([script |-> "summarize_batch_check", outcome |-> "checked",
                      batch_id |-> Val(found), status |-> batches[Val(found)].status])
    /\ UNCHANGED <<articles, batches, files>>

\* A script that would forget the handles when the job is not completed.
SurfaceStatusClearing(report, outcome) ==
    /\ Done(report @@ [outcome |-> outcome])
    /\ articles' = [i \in DOMAIN articles |->
                      [articles[i] EXCEPT !.batch_id = NULL, !.filter_batch_id = NULL]]
    /\ UNCHANGED batches

\* The job is not there, not completed or has no output: the script prints
\* what it found and ends without touching the store.
SurfaceStatus(report, outcome) ==
    /\ Done(report @@ [outcome |-> outcome])
    /\ UNCHANGED <<articles, batches>>

\* A loop body that would append the summary to the one already stored.
SummaryEntryAppend(a, e) ==
    IF e.kind = "error" THEN SummaryError(a)
    ELSE SummaryStore(a, (IF a.summary = NULL THEN 0 ELSE Val(a.summary)) + e.content)

\* One line of the summarization results applied to its row.
SummaryEntry(a, e) ==
    IF e.kind = "error" THEN SummaryError(a) ELSE SummaryStore(a, e.content)

\* content.strip().upper()
Upper(content) ==
    CASE content = "yes" -> "YES"
      [] content = "no" -> "NO"
      [] OTHER -> content

\* 1 if 'YES' in decision else 0
IsRelevant(content) == IF Upper(content) \in {"YES"} THEN 1 ELSE 0

\* A loop that would leave the flag of an error line as it is.
FilterEntrySkippingErrors(a, e) ==
    IF e.kind = "error" THEN a
    ELSE [a EXCEPT !.cultural_relevant = Some(IsRelevant(e.content))]

\* One line of the filter results applied to its row: an error line marks the
\* article relevant.
FilterEntry(a, e) ==
    IF e.kind = "error" THEN [a EXCEPT !.cultural_relevant = Some(1)]
    ELSE [a EXCEPT !.cultural_relevant = Some(IsRelevant(e.content))]

\* The body of the loop over the result lines, for either kind of batch.
EntryUpdate(kind, a, e) ==
    IF kind = "summary" THEN SummaryEntry(a, e) ELSE FilterEntry(a, e)

RECURSIVE ApplyEntries(_, _, _)
\* The loop over the result lines: UPDATE ... WHERE id = <custom_id>.
ApplyEntries(table, bundle, kind) ==
    IF bundle = <<>> THEN table
    ELSE LET e == Head(bundle)
             updated == IF e.custom_id \in DOMAIN table
                        THEN [table EXCEPT ![e.custom_id] = EntryUpdate(kind, @, e)]
                        ELSE table
         IN  ApplyEntries(updated, Tail(bundle), kind)

\* A line that cannot be read raises out of the loop, before the only
\* conn.commit(): nothing of the run is stored.
Raises(bundle) == \E i \in DOMAIN bundle : bundle[i].kind = "malformed"

\* The loop and the conn.commit() after it.
Reconcile(table, bundle, kind) ==
    IF Raises(bundle) THEN table ELSE ApplyEntries(table, bundle, kind)

ReconcileOutcome(bundle) == IF Raises(bundle) THEN "aborted" ELSE "processed"

\* Download the output file of job h, run the loop over it and report.
ReconcileRun(report, h) ==
    \E out \in Download(h) :
        /\ batches' = [batches EXCEPT ![h].output = Some(out)]
        /\ articles' = Reconcile(articles, out, batches[h].kind)
        /\ Done(report @@ [outcome |-> ReconcileOutcome(out)])

BatchProcess ==
    /\ Start
    /\ LET found == CurrentBatch(articles, "batch_id")
           report == [script |-> "summarize_batch_process"]
       IN  IF found = NULL
           THEN SurfaceStatus(report, "no_batch")
           ELSE LET batch == batches[Val(found)]
                    r == report @@ [batch_id |-> Val(found), status |-> batch.status]
                IN  IF batch.status # "completed"
                    THEN SurfaceStatus(r, "not_completed")
                    ELSE IF ~batch.output_file
                    THEN SurfaceStatus(r, "no_output")
                    ELSE ReconcileRun(r, Val(found))
    /\ UNCHANGED files

----------------------------------------------------------------------------
(* filter_cultural_articles.py, check_cultural_filter_batch.py *)

\* UPDATE articles SET filter_batch_id = ? WHERE id IN (<selected ids>)
MarkFilter(table, ids, h) ==
    [i \in DOMAIN table |->
        IF i \in Range(ids) THEN [table[i] EXCEPT !.filter_batch_id = Some(h)]
        ELSE table[i]]

FilterStart ==
    /\ Start
    /\ LET selected == SelectSeq(RowIds(articles), LAMBDA i : NeedsFilter(articles[i]))
           report == [script |-> "filter_cultural_articles", selected |-> selected]
       IN  IF selected = <<>>
           THEN /\ Done(report @@ [outcome |-> "nothing_to_filter"])
                /\ UNCHANGED <<batches, files>>
           ELSE /\ CanCreate
                /\ \E h \in Handles \ DOMAIN batches :
                     /\ batches' = batches @@ (h :> NewBatch("filter", selected))
                     /\ files' = [files EXCEPT !.cultural_filter_batch_info = Some(h)]
                     /\ pc' = "filter_created"
                     /\ loc' = report @@ [batch_id |-> h]
    /\ UNCHANGED articles

FilterMark ==
    /\ pc = "filter_created"
    /\ articles' = MarkFilter(articles, loc.selected, loc.batch_id)
    /\ pc' = "filter_wait"
    /\ UNCHANGED <<loc, batches, files>>
    /\ UNCHANGED runs

\* "Wait here for completion? (y/n)"
FilterWait ==
    /\ pc = "filter_wait"
    /\ \/ pc' = "filter_poll" /\ UNCHANGED loc
       \/ Done(loc @@ [outcome |-> "submitted"])
    /\ UNCHANGED <<articles, batches, files>>
    /\ UNCHANGED runs

\* What a script does once it has retrieved the filter job's state.
FilterResult(report, h) ==
    LET batch == batches[h]
        r == report @@ [status |-> batch.status]
    IN  IF batch.status = "completed"
        THEN IF ~batch.output_file
             THEN SurfaceStatus(r, "no_output")
             ELSE ReconcileRun(r, h)
        ELSE IF batch.status \in {"failed", "cancelled", "expired"}
        THEN SurfaceStatus(r, "batch_failed")
        ELSE SurfaceStatus(r, "not_completed")

\* One round of the polling loop; while the job runs the script sleeps and
\* polls again.
FilterPoll ==
    /\ pc = "filter_poll"
    /\ IF batches[loc.batch_id].status = "in_progress"
       THEN UNCHANGED <<pc, loc, articles, batches>>
       ELSE FilterResult(loc, loc.batch_id)
    /\ UNCHANGED files
    /\ UNCHANGED runs

FilterCheck ==
    /\ Start
    /\ LET found == CurrentBatch(articles, "filter_batch_id")
           report == [script |-> "check_cultural_filter_batch"]
       IN  IF found = NULL
           THEN SurfaceStatus(report, "no_batch")
           ELSE FilterResult(report @@ [batch_id |-> Val(found)], Val(found))
    /\ UNCHANGED files

----------------------------------------------------------------------------
(* The stage scripts' specification: the store holds the rows an import left *)

StoreUrls ==
    <<"u1", "u2", "u3", "u4", "u5", "u6", "u7", "u8", "u9", "u10", "u11", "u12",
      "u13", "u14">>

\* A row as the import left it.
ImportedRow(i) == ArticleRow("t1", StoreUrls[i], "media_cloud")

\* The store when the stage scripts are first run: the imported rows, some of
\* them already scraped by an earlier run of scrape_articles.py.
Init ==
    /\ search_results = <<>>
    /\ \E n \in 1..MaxRecords : \E scraped \in SUBSET (1..n) :
         articles = [i \in 1..n |->
                       IF i \in scraped
                       THEN ScrapeStore(ImportedRow(i), MinTextLen + 1)
                       ELSE ImportedRow(i)]
    /\ csv = <<>>
    /\ pc = "idle"
    /\ loc = Idle
    /\ runs = 0
    /\ prev = [s \in Importers |-> NULL]
    /\ batches = <<>>
    /\ files = NoFiles
    /\ columns = StageColumns

Next ==
    \/ ScrapeStart     /\ UNCHANGED <<search_results, csv, prev, columns>>
    \/ ScrapeRecord    /\ UNCHANGED <<search_results, csv, prev, columns>>
    \/ SummarizeStart  /\ UNCHANGED <<search_results, csv, prev, columns>>
    \/ SummarizeRecord /\ UNCHANGED <<search_results, csv, prev, columns>>
    \/ SyncEnd         /\ UNCHANGED <<search_results, csv, prev, columns>>
    \/ Interrupt       /\ UNCHANGED <<search_results, csv, prev, columns>>
    \/ BatchPrepare    /\ UNCHANGED <<search_results, csv, prev, columns>>
    \/ SubmitCreate    /\ UNCHANGED <<search_results, csv, prev, columns>>
    \/ SubmitMark      /\ UNCHANGED <<search_results, csv, prev, columns>>
    \/ BatchCheck      /\ UNCHANGED <<search_results, csv, prev, columns>>
    \/ BatchProcess    /\ UNCHANGED <<search_results, csv, prev, columns>>
    \/ FilterStart     /\ UNCHANGED <<search_results, csv, prev, columns>>
    \/ FilterMark      /\ UNCHANGED <<search_results, csv, prev, columns>>
    \/ FilterWait      /\ UNCHANGED <<search_results, csv, prev, columns>>
    \/ FilterPoll      /\ UNCHANGED <<search_results, csv, prev, columns>>
    \/ FilterCheck     /\ UNCHANGED <<search_results, csv, prev, columns>>
    \/ BatchSettles    /\ UNCHANGED <<search_results, csv, prev, columns>>

Spec == Init /\ [][Next]_vars

----------------------------------------------------------------------------
(* The reconciliation of one larger summarization job *)

\* The store after prepare and submit over n scraped records, at most one of
\* them summarized synchronously between the two; the job has completed with an
\* output file.
ReconcileInit ==
    /\ search_results = <<>>
    /\ csv = <<>>
    /\ prev = [s \in Importers |-> NULL]
    /\ pc = "idle"
    /\ loc = Idle
    /\ runs = 0
    /\ \E n \in 1..MaxBatchSize : \E summarized \in {{}} \cup {{i} : i \in 1..n} :
         LET scraped == [i \in 1..n |-> ScrapeStore(ImportedRow(i), MinTextLen + 1)]
             store == [i \in 1..n |->
                         IF i \in summarized
                         THEN SummaryStore(scraped[i], MinSummaryLen)
                         ELSE scraped[i]]
             ids == RowIds(store)
         IN  /\ articles = MarkSubmitted(store, 1)
             /\ batches = (1 :> [NewBatch("summary", ids) EXCEPT
                                   !.status = "completed", !.output_file = TRUE])
             /\ files = [NoFiles EXCEPT !.batch_requests = Some(ids),
                                        !.batch_info = Some(1)]
    /\ columns = StageColumns

\* summarize_batch_process.py is killed inside its loop, at line number
\* loc.inflight of the output file.  The UPDATEs of the lines before it are
\* in the open transaction of the connection, whose only conn.commit() is
\* after the loop: the store keeps none of them.
ProcessCrash ==
    /\ Start
    /\ LET found == CurrentBatch(articles, "batch_id")
       IN  /\ found # NULL
           /\ batches[Val(found)].status = "completed"
           /\ batches[Val(found)].output_file
           /\ \E out \in Download(Val(found)) : \E k \in DOMAIN out :
                /\ batches' = [batches EXCEPT ![Val(found)].output = Some(out)]
                /\ Done([script |-> "summarize_batch_process",
                         batch_id |-> Val(found),
                         status |-> "completed",
                         inflight |-> k,
                         outcome |-> "interrupted"])
    /\ UNCHANGED <<articles, files>>

ReconcileNext ==
    \/ BatchCheck   /\ UNCHANGED <<search_results, csv, prev, columns>>
    \/ BatchProcess /\ UNCHANGED <<search_results, csv, prev, columns>>
    \/ ProcessCrash /\ UNCHANGED <<search_results, csv, prev, columns>>

SpecReconcile == ReconcileInit /\ [][ReconcileNext]_vars

----------------------------------------------------------------------------
(* A second summarization job after a first one was reconciled *)

\* The handle of the earlier job: handles are opaque strings, so it sorts
\* before or after every handle that the endpoint gives out later.
EarlierHandles == {0, MaxBatches + 1}

\* The store after a first round of prepare, submit and process over record 1
\* (job e, reconciled with success), and a scrape of record 2 since.
ResubmitInit ==
    /\ search_results = <<>>
    /\ csv = <<>>
    /\ prev = [s \in Importers |-> NULL]
    /\ pc = "idle"
    /\ loc = Idle
    /\ runs = 0
    /\ columns = StageColumns
    /\ \E e \in EarlierHandles :
         LET scraped == [i \in 1..2 |-> ScrapeStore(ImportedRow(i), MinTextLen + 1)]
             line == [custom_id |-> 1, kind |-> "ok", content |-> MinSummaryLen + 1]
             first == MarkSubmitted(<<scraped[1]>>, e)
         IN  /\ articles = <<SummaryEntry(first[1], line), scraped[2]>>
             /\ batches = (e :> [NewBatch("summary", <<1>>) EXCEPT
                                   !.status = "completed", !.output_file = TRUE,
                                   !.output = Some(<<line>>)])
             /\ files = [NoFiles EXCEPT !.batch_requests = Some(<<1>>),
                                        !.batch_info = Some(e)]

ResubmitNext ==
    \/ BatchPrepare /\ UNCHANGED <<search_results, csv, prev, columns>>
    \/ SubmitCreate /\ UNCHANGED <<search_results, csv, prev, columns>>
    \/ SubmitMark   /\ UNCHANGED <<search_results, csv, prev, columns>>
    \/ BatchSettles /\ UNCHANGED <<search_results, csv, prev, columns>>
    \/ BatchCheck   /\ UNCHANGED <<search_results, csv, prev, columns>>
    \/ BatchProcess /\ UNCHANGED <<search_results, csv, prev, columns>>
    \/ Interrupt    /\ UNCHANGED <<search_results, csv, prev, columns>>

SpecResubmit == ResubmitInit /\ [][ResubmitNext]_vars

----------------------------------------------------------------------------
(* run_topic_modeling.py *)

\* WHERE summary IS NOT NULL AND summary != '' AND LENGTH(summary) > 50
\*   AND (cultural_relevant = 1 OR cultural_relevant IS NULL)
NeedsTopic(a) ==
    /\ a.summary # NULL
    /\ Val(a.summary) # 0
    /\ Val(a.summary) > MinSummaryLen
    /\ (a.cultural_relevant = Some(1) \/ a.cultural_relevant = NULL)

\* The embedding that voyage_client.embed computes for the summary of row i.
Embed(table, i) == [id |-> i, summary |-> Val(table[i].summary)]

\* topic_model.fit_transform(documents, embeddings): a topic per document, by
\* position, with -1 for an outlier.
Clusterings(n) ==
    {[k \in 1..n |-> 0],
     [k \in 1..n |-> -1],
     [k \in 1..n |-> IF k = n THEN -1 ELSE 0],
     [k \in 1..n |-> k % 2]}

\* A write-back that would take the topic of the document before.
WriteTopicsShifted(table, documents, topics) ==
    [i \in DOMAIN table |->
        IF \E k \in DOMAIN documents : documents[k] = i
        THEN LET k == CHOOSE j \in DOMAIN documents : documents[j] = i
             IN  [table[i] EXCEPT !.topic = Some(topics[IF k = 1 THEN Len(topics) ELSE k - 1])]
        ELSE table[i]]

\* for idx, row in df.iterrows(): UPDATE articles SET topic = ? WHERE id = ?
WriteTopics(table, documents, topics) ==
    [i \in DOMAIN table |->
        IF \E k \in DOMAIN documents : documents[k] = i
        THEN LET k == CHOOSE j \in DOMAIN documents : documents[j] = i
             IN  [table[i] EXCEPT !.topic = Some(topics[k])]
        ELSE table[i]]

\* One run of the script: load the documents; with fewer than ten, stop; take
\* the cached embeddings when the cache has as many rows as there are
\* documents, else compute and cache them; fit; write the topics back.
TopicModeling ==
    /\ Start
    /\ LET documents == SelectSeq(RowIds(articles), LAMBDA i : NeedsTopic(articles[i]))
           n == Len(documents)
           report == [script |-> "run_topic_modeling", documents |-> documents]
       IN  IF n < MinDocuments
           THEN /\ Done(report @@ [outcome |-> "not_enough"])
                /\ UNCHANGED <<articles, files, columns>>
           ELSE LET cached == files.embeddings
                    embeddings == IF cached # NULL /\ Len(Val(cached)) = n
                                  THEN Val(cached)
                                  ELSE [k \in 1..n |-> Embed(articles, documents[k])]
                IN  \E topics \in Clusterings(n) :
                      /\ files' = [files EXCEPT !.embeddings = Some(embeddings)]
                      /\ columns' = columns \cup {"topic"}
                      /\ articles' = WriteTopics(articles, documents, topics)
                      /\ Done(report @@ [embeddings |-> embeddings, topics |-> topics,
                                         outcome |-> "clustered"])
    /\ UNCHANGED batches

\* A store of ten summarized records flagged relevant, one summarized record
\* that waits for the result of a completed filter job, and scraped records
\* without a summary; either never clustered or clustered once.
TopicsInit ==
    /\ search_results = <<>>
    /\ csv = <<>>
    /\ prev = [s \in Importers |-> NULL]
    /\ pc = "idle"
    /\ loc = Idle
    /\ runs = 0
    /\ LET waiting == MinDocuments + 1
           scraped == [i \in 1..(MinDocuments + SpareRecords) |->
                          ScrapeStore(ImportedRow(i), MinTextLen + 1)]
           store == [i \in DOMAIN scraped |->
                       IF i < waiting
                       THEN [SummaryStore(scraped[i], MinSummaryLen + 1) EXCEPT
                                !.cultural_relevant = Some(1)]
                       ELSE IF i = waiting
                       THEN SummaryStore(scraped[i], MinSummaryLen + 1)
                       ELSE scraped[i]]
           marked == MarkFilter(store, <<waiting>>, 1)
           documents == [k \in 1..waiting |-> k]
       IN  /\ batches = (1 :> [NewBatch("filter", <<waiting>>) EXCEPT
                                 !.status = "completed", !.output_file = TRUE])
           /\ \/ /\ articles = marked
                 /\ files = [NoFiles EXCEPT !.cultural_filter_batch_info = Some(1)]
                 /\ columns = StageColumns
              \/ \E topics \in Clusterings(waiting) :
                   /\ articles = WriteTopics(marked, documents, topics)
                   /\ files = [NoFiles EXCEPT
                                 !.cultural_filter_batch_info = Some(1),
                                 !.embeddings =
                                    Some([k \in 1..waiting |-> Embed(marked, k)])]
                   /\ columns = StageColumns \cup {"topic"}

TopicsNext ==
    \/ TopicModeling   /\ UNCHANGED <<search_results, csv, prev>>
    \/ FilterCheck     /\ UNCHANGED <<search_results, csv, prev, columns>>
    \/ SummarizeStart  /\ UNCHANGED <<search_results, csv, prev, columns>>
    \/ SummarizeRecord /\ UNCHANGED <<search_results, csv, prev, columns>>
    \/ SyncEnd         /\ UNCHANGED <<search_results, csv, prev, columns>>

SpecTopics == TopicsInit /\ [][TopicsNext]_vars

----------------------------------------------------------------------------
(* The schema setup of the stage scripts *)

SchemaScripts ==
    {"scrape_articles", "summarize_articles", "summarize_batch_prepare",
     "filter_cultural_articles"}

\* The try blocks at the head of a script, each with its ALTER TABLE articles
\* ADD COLUMN statements in order.
SetupGroups(script) ==
    CASE script = "scrape_articles" ->
            << <<"text">>, <<"scraped_at", "scrape_status">> >>
      [] script = "summarize_articles" ->
            << <<"summary">>, <<"summarized_at", "summary_status">> >>
      [] script = "summarize_batch_prepare" ->
            << <<"summary", "summary_status", "summarized_at", "batch_id">> >>
      [] script = "filter_cultural_articles" ->
            << <<"cultural_relevant", "filter_batch_id">> >>

RECURSIVE AddColumns(_, _)
\* One try block: each ALTER TABLE takes effect at once; the first one that
\* names an existing column raises sqlite3.OperationalError, which ends the
\* block (except sqlite3.OperationalError: print).
AddColumns(cols, group) ==
    IF group = <<>> THEN cols
    ELSE IF Head(group) \in cols THEN cols
    ELSE AddColumns(cols \cup {Head(group)}, Tail(group))

RECURSIVE SetupAll(_, _)
SetupAll(cols, groups) ==
    IF groups = <<>> THEN cols
    ELSE SetupAll(AddColumns(cols, Head(groups)), Tail(groups))

\* The columns of the table after the setup step of the script.
Setup(cols, script) == SetupAll(cols, SetupGroups(script))

\* The stage columns named by the script's selection query.
Reads(script) ==
    CASE script = "scrape_articles" -> {"text"}
      [] script = "summarize_articles" -> {"text", "summary"}
      [] script = "summarize_batch_prepare" -> {"text", "summary"}
      [] script = "filter_cultural_articles" -> {"summary", "cultural_relevant"}

\* A store without records, its table with any of the stage columns.
SchemaInit ==
    /\ search_results = <<>>
    /\ articles = <<>>
    /\ csv = <<>>
    /\ pc = "idle"
    /\ loc = Idle
    /\ runs = 0
    /\ prev = [s \in Importers |-> NULL]
    /\ batches = <<>>
    /\ files = NoFiles
    /\ columns \in SUBSET StageColumns

\* A run of a stage script on the store without records: the setup step, then
\* the selection, which raises when it names a missing column and else finds
\* nothing to do (summarize_batch_prepare.py writes its request file, empty).
SchemaSetup ==
    /\ Start
    /\ \E script \in SchemaScripts :
         LET found == Reads(script) \subseteq Setup(columns, script)
         IN  /\ columns' = Setup(columns, script)
             /\ Done([script |-> script,
                      outcome |-> IF found THEN "nothing_pending"
                                  ELSE "no_such_column"])
             /\ files' = IF found /\ script = "summarize_batch_prepare"
                         THEN [files EXCEPT !.batch_requests = Some(<<>>)]
                         ELSE files
    /\ UNCHANGED <<articles, batches>>

SchemaNext ==
    \/ SchemaSetup /\ UNCHANGED <<search_results, csv, prev>>

SpecSchema == SchemaInit /\ [][SchemaNext]_vars

----------------------------------------------------------------------------
(* Claims about the importers *)

UniqueIn(table, col) ==
    \A i, j \in DOMAIN table : table[i][col] = table[j][col] => i = j

\* Every row of old is still in new, at its place (its id) and with every field.
RowsKept(old, new) == \A i \in DOMAIN old : i \in DOMAIN new /\ new[i] = old[i]

\* An importer is in its insert loop: its next step attempts inserts or ends
\* the loop.
InsertAttempt == pc \in {"run_search", "integrate", "build_google", "build_csv"}

\* C1: no two rows of articles share a url and no two rows of search_results
\* share a link, in every reachable state; and every step of an insert loop
\* (a page of run_search, a row of either importer) leaves every existing row
\* of both stores as it was, so a duplicate never overwrites.
C1_UrlUnique ==
    /\ [](UniqueIn(articles, "url") /\ UniqueIn(search_results, "link"))
    /\ [][InsertAttempt =>
            RowsKept(articles, articles') /\ RowsKept(search_results, search_results')]_vars

\* C1 witness: build_unified_db has rejected a duplicate url (counted as skipped)
\* with rows in the store.
C1_Witness ==
    /\ pc = "build_csv"
    /\ articles # <<>>
    /\ Total(loc.stats, "skipped") > 0
    /\ \E i \in DOMAIN csv : i < loc.row /\ csv[i].url # EmptyUrl
                              /\ \E j \in DOMAIN articles : articles[j].url = csv[i].url
                                    /\ articles[j].search_type # "media_cloud"

\* The counters of the importer run that has just read its last row.
Finishing(script) ==
    IF script = "integrate_media_cloud"
    THEN pc = "integrate" /\ loc.row > Len(csv)
    ELSE pc = "build_csv" /\ loc.row > Len(csv)

RunCounters(script) ==
    IF script = "integrate_media_cloud"
    THEN [feed |-> Len(csv), added |-> loc.new_count,
          duplicate |-> loc.duplicate_count, errors |-> loc.error_count]
    ELSE [feed |-> Len(loc.rows) + Len(csv), added |-> Total(loc.stats, "added"),
          duplicate |-> Total(loc.stats, "skipped"), errors |-> Total(loc.stats, "errors")]

TargetStore(script) ==
    IF script = "integrate_media_cloud" THEN search_results ELSE articles

\* C10: when an importer finishes a run over the feed its previous run read
\* (the feeds only grow, so the same number of rows is the same feed), the run
\* has added no row, has counted as duplicate every row the previous run added
\* or counted as duplicate, and its store is as it was when the run started.
C10_SecondImportAddsNothing ==
    \A script \in Importers :
        (Finishing(script) /\ prev[script] # NULL
            /\ Val(prev[script]).feed = RunCounters(script).feed)
        => /\ RunCounters(script).added = 0
           /\ RunCounters(script).duplicate =
                 Val(prev[script]).added + Val(prev[script]).duplicate
           /\ TargetStore(script) = loc.before

----------------------------------------------------------------------------
(* Claims about the stage scripts *)

\* A record is pending for a stage: the stage's output is null or empty and
\* the stage's prerequisite holds.
Pending(stage, a) ==
    CASE stage = "scrape" -> a.text = NULL \/ Val(a.text) = 0
      [] stage = "summarize" ->
            /\ a.text # NULL /\ Val(a.text) > 200
            /\ (a.summary = NULL \/ Val(a.summary) = 0)
      [] stage = "filter" ->
            /\ a.summary # NULL /\ Val(a.summary) > 50
            /\ a.cultural_relevant = NULL

PendingIds(stage) == {i \in DOMAIN articles : Pending(stage, articles[i])}

\* The ids in selected are the pending ids of the stage, each once.
Selects(selected, stage) ==
    /\ Range(selected) = PendingIds(stage)
    /\ Len(selected) = Cardinality(PendingIds(stage))

\* C2: a run that has just made its selection (scrape, synchronous summarize,
\* batch prepare, relevance filter) has selected exactly the records whose
\* stage output is null or empty and whose prerequisite holds (summarize: text
\* longer than 200; filter: summary longer than 50), each once; the request
\* file of prepare holds that selection.
C2_SelectionExact ==
    /\ (pc = "scrape" /\ loc.idx = 1) => Selects(loc.selected, "scrape")
    /\ (pc = "summarize" /\ loc.idx = 1) => Selects(loc.selected, "summarize")
    /\ (pc = "done" /\ loc.script = "summarize_batch_prepare")
         => /\ Selects(loc.selected, "summarize")
            /\ files.batch_requests = Some(loc.selected)
    /\ (pc = "filter_created"
          \/ (pc = "done" /\ loc.script = "filter_cultural_articles"
                /\ loc.outcome = "nothing_to_filter"))
         => Selects(loc.selected, "filter")

\* C2 witness: a summarize run has selected some records and not the one whose
\* text is exactly 200 long.
C2_Witness ==
    /\ pc = "summarize" /\ loc.idx = 1 /\ loc.selected # <<>>
    /\ \E i \in DOMAIN articles :
         articles[i].text = Some(200) /\ i \notin Range(loc.selected)

\* C3: in every state, a record whose scrape or summary status is 'success'
\* is not pending for that stage, and a record with a relevance flag is not
\* pending for the filter; whatever content the stage stored.
C3_SuccessNeverPending ==
    \A i \in DOMAIN articles :
        /\ articles[i].scrape_status = Some("success")
             => ~Pending("scrape", articles[i])
        /\ articles[i].summary_status = Some("success")
             => ~Pending("summarize", articles[i])
        /\ articles[i].cultural_relevant # NULL
             => ~Pending("filter", articles[i])

ReconcileScripts ==
    {"summarize_batch_process", "filter_cultural_articles", "check_cultural_filter_batch"}

\* A run that read the output file of its job has ended.
Reconciled(outcomes) ==
    pc = "done" /\ loc.script \in ReconcileScripts /\ loc.outcome \in outcomes

\* What a result line asks for is in the row: the summary with status
\* 'success' or an error status; a relevance flag.
LinePersisted(kind, a, e) ==
    IF kind = "summary"
    THEN CASE e.kind = "ok" ->
                a.summary = Some(e.content) /\ a.summary_status = Some("success")
           [] OTHER -> a.summary_status = Some("error")
    ELSE a.cultural_relevant # NULL

\* C4: while a synchronous run is in its loop every record it has handled
\* carries a persisted status, and when a run that reconciles a completed
\* batch has ended, every line of the output file is persisted in its row: a
\* readable line as its result, a line that failed as a status; no line's
\* failure has kept another line's result out of the store.
C4_FailureNeverAborts ==
    /\ pc = "scrape"
         => \A k \in 1..(loc.idx - 1) :
               articles[loc.selected[k]].scrape_status # NULL
    /\ pc = "summarize"
         => \A k \in 1..(loc.idx - 1) :
               articles[loc.selected[k]].summary_status # NULL
    /\ Reconciled({"processed", "aborted"})
         => LET batch == batches[loc.batch_id]
                bundle == Val(batch.output)
            IN  \A j \in DOMAIN bundle :
                   LinePersisted(batch.kind, articles[bundle[j].custom_id], bundle[j])

\* The last run of the script was interrupted in its loop: its report shows
\* the selection and the position it had reached.
Interrupted(script) ==
    pc = "done" /\ loc.script = script /\ loc.outcome = "interrupted"

\* The records of the interrupted run: the k it handled, the n - k it did not.
Handled == {loc.selected[j] : j \in 1..(loc.idx - 1)}

Remaining == {loc.selected[j] : j \in loc.idx..Len(loc.selected)}

Terminal(kind, a) ==
    IF kind = "summary"
    THEN a.summary_status \in {Some("success"), Some("error")}
    ELSE a.cultural_relevant # NULL

\* C6: when a run has reconciled a completed batch (it read the output file to
\* its end), every record whose id is among the job's requests has a terminal
\* state: summary status 'success' or error, or a relevance flag.
C6_AllSubmittedTerminal ==
    Reconciled({"processed"})
        => LET batch == batches[loc.batch_id]
           IN  \A id \in Range(batch.requests) : Terminal(batch.kind, articles[id])

\* The stage output and status of two rows are the same.
SameOutcome(a, b) ==
    /\ a.summary = b.summary
    /\ a.summary_status = b.summary_status
    /\ a.cultural_relevant = b.cultural_relevant

\* C7: for every completed job with an output file and every store the
\* scripts can find, running the reconciliation loop over the file a second
\* time leaves each record's summary, summary status and relevance flag as the
\* first time left them.
C7_ReapplyChangesNothing ==
    \A h \in DOMAIN batches :
        (batches[h].status = "completed" /\ batches[h].output # NULL)
        => LET bundle == Val(batches[h].output)
               once == Reconcile(articles, bundle, batches[h].kind)
               twice == Reconcile(once, bundle, batches[h].kind)
           IN  \A i \in DOMAIN articles : SameOutcome(once[i], twice[i])

\* C7 witness: a run has applied an output file with a readable result, and
\* the file is still there to be applied again.
C7_Witness ==
    /\ Reconciled({"processed"})
    /\ \E j \in DOMAIN Val(batches[loc.batch_id].output) :
         LET e == Val(batches[loc.batch_id].output)[j]
         IN  e.kind = "ok" /\ LinePersisted(batches[loc.batch_id].kind,
                                            articles[e.custom_id], e)

\* C8: when summarize_batch_submit has ended, and when filter_cultural_articles
\* has marked its records, the records that carry the new handle are the
\* records whose requests are in the job.
C8_MarkedAreSubmitted ==
    /\ (pc = "done" /\ loc.script = "summarize_batch_submit"
          /\ loc.outcome = "submitted")
         => {i \in DOMAIN articles : articles[i].batch_id = Some(loc.batch_id)}
              = Range(batches[loc.batch_id].requests)
    /\ pc = "filter_wait"
         => {i \in DOMAIN articles : articles[i].filter_batch_id = Some(loc.batch_id)}
              = Range(batches[loc.batch_id].requests)

\* A check, poll or process step.
ReadsJob == BatchCheck \/ BatchProcess \/ FilterPoll \/ FilterCheck

\* The script's report shows a job that is not completed.
NotCompleted(report) ==
    /\ "status" \in DOMAIN report
    /\ report.status \in {"in_progress", "failed", "cancelled", "expired"}

JobStage(h) == IF batches[h].kind = "summary" THEN "summarize" ELSE "filter"

\* C9: a check, poll or process step that ends on a job that is in progress,
\* failed, cancelled or expired leaves every field of every record as it was,
\* and every record of the job that was pending for the stage is pending
\* still, so that the next prepare selects it.
C9_NotCompletedChangesNothing ==
    [][(ReadsJob /\ pc' = "done" /\ NotCompleted(loc'))
         => /\ articles' = articles
            /\ \A id \in Range(batches[loc'.batch_id].requests) :
                  Pending(JobStage(loc'.batch_id), articles[id])
                    => Pending(JobStage(loc'.batch_id), articles'[id])]_vars

\* C9 witness: summarize_batch_process has found its job failed, cancelled or
\* expired, and a record that carries the job's handle is pending.
C9_Witness ==
    /\ pc = "done" /\ loc.script = "summarize_batch_process"
    /\ loc.outcome = "not_completed"
    /\ loc.status \in {"failed", "cancelled", "expired"}
    /\ \E i \in DOMAIN articles :
         /\ articles[i].batch_id = Some(loc.batch_id)
         /\ Pending("summarize", articles[i])

----------------------------------------------------------------------------
(* Claims about the importers' counters *)

ZeroCounts == [added |-> 0, duplicate |-> 0, error |-> 0]

RECURSIVE Classified(_, _)
\* The counters the claimed classification gives for the urls read, in order,
\* when the urls in seen are present: a missing url is an error, a url that is
\* present a duplicate, any other url is added.
Classified(urls, seen) ==
    IF urls = <<>> THEN ZeroCounts
    ELSE LET u == Head(urls)
             rest == Classified(Tail(urls), IF u = EmptyUrl THEN seen ELSE seen \cup {u})
         IN  IF u = EmptyUrl THEN [rest EXCEPT !.error = @ + 1]
             ELSE IF u \in seen THEN [rest EXCEPT !.duplicate = @ + 1]
             ELSE [rest EXCEPT !.added = @ + 1]

\* The urls of the CSV rows the running importer has read.
CsvRead == [i \in 1..(loc.row - 1) |-> csv[i].url]

Links(table) == {table[i].link : i \in DOMAIN table}

\* C11: while an importer is in a loop over a feed, the counters of that feed
\* are those of the classification of the rows read so far (new url: added;
\* url present: duplicate; missing url: error), so they add up to the number
\* of rows read, and the store has grown by the added rows and no other.
C11_EveryRowClassified ==
    /\ pc = "integrate"
         => LET c == Classified(CsvRead, Links(loc.before))
            IN  /\ loc.new_count = c.added
                /\ loc.duplicate_count = c.duplicate
                /\ loc.error_count = c.error
                /\ loc.new_count + loc.duplicate_count + loc.error_count = loc.row - 1
                /\ Len(search_results) = Len(loc.before) + loc.new_count
    /\ pc = "build_google"
         => LET c == Classified([i \in 1..(loc.row - 1) |-> loc.rows[i].link], {})
            IN  /\ Total(loc.stats, "added") = c.added
                /\ Total(loc.stats, "skipped") = c.duplicate
                /\ Total(loc.stats, "errors") = c.error
                /\ Len(articles) = Total(loc.stats, "added")
    /\ pc = "build_csv"
         => LET c == Classified(CsvRead, Links(loc.rows))
                m == loc.stats["media_cloud"]
            IN  /\ m.added = c.added
                /\ m.skipped = c.duplicate
                /\ m.errors = c.error
                /\ m.added + m.skipped + m.errors = loc.row - 1
                /\ Len(articles) = Total(loc.stats, "added")

\* The feed has exactly one row without url and its other urls are distinct.
OneMalformed ==
    /\ Cardinality({i \in DOMAIN csv : csv[i].url = EmptyUrl}) = 1
    /\ \A i, j \in DOMAIN csv : csv[i].url = csv[j].url => i = j

\* The urls the importer finds in its store before it reads the feed.
UrlsBefore(script) ==
    IF script = "integrate_media_cloud" THEN Links(loc.before) ELSE Links(loc.rows)

\* No url of the feed came from another feed.
FreshFeed(script) ==
    \A i \in DOMAIN csv :
        csv[i].url \notin
            (IF script = "integrate_media_cloud"
             THEN {search_results[j].link :
                     j \in {k \in DOMAIN search_results :
                              search_results[k].search_type # "media_cloud"}}
             ELSE Links(loc.rows))

\* C12: when an importer has read the last row of a 3-row feed of new urls in
\* which one row has no url, its counters are 2 added, 0 duplicate, 1 error if
\* this is its first run over the feed, and 0 added, 2 duplicate, 1 error if
\* it has run over the feed before.
C12_ThreeRowFeed ==
    \A script \in Importers :
        (Finishing(script) /\ Len(csv) = 3 /\ OneMalformed /\ FreshFeed(script))
        => LET c == RunCounters(script)
           IN  IF prev[script] = NULL
               THEN c.added = 2 /\ c.duplicate = 0 /\ c.errors = 1
               ELSE c.added = 0 /\ c.duplicate = 2 /\ c.errors = 1

----------------------------------------------------------------------------
(* Claims about the reconciliation of a summarization job *)

\* A step of summarize_batch_process.py that ran the loop over the output
\* file to its end.
ProcessedStep ==
    /\ runs' # runs
    /\ pc' = "done"
    /\ loc'.script = "summarize_batch_process"
    /\ loc'.outcome = "processed"

\* The output file answers every one of five requests, the third with an error.
ThirdOfFiveFails(out) ==
    /\ Len(out) = 5
    /\ \A k \in 1..5 : /\ out[k].custom_id = k
                       /\ out[k].kind = IF k = 3 THEN "error" ELSE "ok"

\* C13: a reconciliation that reads an error entry changes nothing of its
\* record but the status, which becomes an error status; and for a job of five
\* member records whose third entry is an error, the four others end with
\* status success and a summary, the third with an error status and no summary.
C13_ErrorEntrySetsOnlyStatus ==
    [][ProcessedStep =>
         LET out == Val(batches'[loc'.batch_id].output)
         IN  /\ \A k \in DOMAIN out :
                   out[k].kind = "error" =>
                       articles'[out[k].custom_id] =
                           [articles[out[k].custom_id] EXCEPT
                               !.summary_status = Some("error")]
             /\ (/\ ThirdOfFiveFails(out)
                 /\ Len(articles) = 5
                 /\ \A i \in 1..5 : articles[i].summary_status = Some("batch_submitted"))
                => \A i \in 1..5 :
                      IF i = 3
                      THEN /\ articles'[i].summary_status = Some("error")
                           /\ articles'[i].summary = NULL
                      ELSE /\ articles'[i].summary_status = Some("success")
                           /\ articles'[i].summary # NULL]_vars

C13_Witness ==
    /\ pc = "done"
    /\ loc.script = "summarize_batch_process"
    /\ loc.outcome = "processed"
    /\ Len(articles) = 5
    /\ ThirdOfFiveFails(Val(batches[loc.batch_id].output))
    /\ \A i \in 1..5 : articles[i].batch_id = Some(loc.batch_id)
    /\ articles[3].summary = NULL
    /\ articles[3].summary_status = Some("error")
    /\ \A i \in {1, 2, 4, 5} : articles[i].summary_status = Some("success")

----------------------------------------------------------------------------
(* Claims about failed records and later runs *)

\* The stage has recorded a failure of its attempt on the record.
FailedAttempt(stage, a) ==
    CASE stage = "scrape" -> a.scrape_status \in {Some("no_content"), Some("error")}
      [] stage = "summarize" -> a.summary_status = Some("error")

\* C14: a run of the scrape or of the synchronous summarize stage that has
\* just made its selection has selected no record whose scrape status is
\* 'no_content' or an error status, respectively whose summary status is an
\* error status (no action of the model clears a status).
C14_FailedNeverSelected ==
    /\ (pc = "scrape" /\ loc.idx = 1)
         => \A k \in DOMAIN loc.selected :
               ~FailedAttempt("scrape", articles[loc.selected[k]])
    /\ (pc = "summarize" /\ loc.idx = 1)
         => \A k \in DOMAIN loc.selected :
               ~FailedAttempt("summarize", articles[loc.selected[k]])

\* C15: when summarize_batch_process.py has been killed inside its loop, the
\* result of every line of the output file before the one in flight is in
\* the store.
C15_HandledLinesDurable ==
    (/\ pc = "done"
     /\ loc.script = "summarize_batch_process"
     /\ loc.outcome = "interrupted")
    => LET out == Val(batches[loc.batch_id].output)
       IN  \A j \in 1..(loc.inflight - 1) :
              LinePersisted("summary", articles[out[j].custom_id], out[j])

----------------------------------------------------------------------------
(* Claims about what the store keeps *)

\* The columns that hold the output of a stage.
OutputColumns == {"text", "summary", "cultural_relevant"}

\* C16: no step changes a stage output (scraped text, summary, relevance
\* flag) of a record once it is not null.
C16_OutputsOnlyGained ==
    [][\A i \in DOMAIN articles : \A col \in OutputColumns :
          articles[i][col] # NULL
             => /\ i \in DOMAIN articles'
                /\ articles'[i][col] = articles[i][col]]_vars

\* C17: no step removes a record: every record of the store is in the store
\* after the step, under the same id and with the same url.
C17_NoRecordRemoved ==
    [][\A i \in DOMAIN articles :
          i \in DOMAIN articles' /\ articles'[i].url = articles[i].url]_vars

----------------------------------------------------------------------------
(* Claims about the schema setup *)

\* The columns that the setup step of the script is written to add.
Owned(script) ==
    UNION {{SetupGroups(script)[g][k] : k \in DOMAIN SetupGroups(script)[g]} :
             g \in DOMAIN SetupGroups(script)}

\* C18: when a stage script has run its setup step, every column that the
\* step is written to add is in the table, and the step run again would add
\* no column.
C18_SetupAddsEveryColumn ==
    (pc = "done" /\ loc.script \in SchemaScripts
        /\ loc.outcome \in {"nothing_pending", "no_such_column"})
    => /\ Owned(loc.script) \subseteq columns
       /\ Setup(columns, loc.script) = columns

\* The setup step run again adds no column (the part of C18 that holds).
SetupRepeatAddsNothing ==
    (pc = "done" /\ loc.script \in SchemaScripts
        /\ loc.outcome \in {"nothing_pending", "no_such_column"})
    => Setup(columns, loc.script) = columns

----------------------------------------------------------------------------
(* Claims about batch handles *)

\* A later process can read handle h back: from the batch-handle column of a
\* record or from a side file.
Recoverable(h) ==
    \/ \E i \in DOMAIN articles :
          articles[i].batch_id = Some(h) \/ articles[i].filter_batch_id = Some(h)
    \/ files.batch_info = Some(h)
    \/ files.cultural_filter_batch_info = Some(h)

\* C19: whenever no script is running, the handle of every job that exists at
\* the endpoint can be read back from the store or from a side file.
C19_HandleRecoverable ==
    pc \in {"idle", "done"} => \A h \in DOMAIN batches : Recoverable(h)

\* C20: the handle that summarize_batch_check.py or summarize_batch_process.py
\* has read back from the store is the handle of the last batch that
\* summarize_batch_submit.py submitted (the one it wrote to batch_info.txt).
C20_ReadsLatestHandle ==
    (/\ pc = "done"
     /\ loc.script \in {"summarize_batch_check", "summarize_batch_process"}
     /\ loc.outcome # "no_batch")
    => Some(loc.batch_id) = files.batch_info

----------------------------------------------------------------------------
(* Claims about the relevance filter *)

FilterScripts == {"filter_cultural_articles", "check_cultural_filter_batch"}

\* A filter script has run the loop over the output file of its job to the end.
FilterReconciled ==
    pc = "done" /\ loc.script \in FilterScripts /\ loc.outcome = "processed"

\* The flag that a result line asks for.
ExpectedFlag(e) ==
    CASE e.kind = "error" -> 1
      [] e.kind = "ok" /\ e.content = "yes" -> 1
      [] e.kind = "ok" /\ e.content = "NO" -> 0

\* C21: when a filter reconciliation has ended, the record of every error
\* line has relevance flag 1, the record of every answer line has flag 1 when
\* the uppercased answer is YES and 0 otherwise; none of them has a null flag.
C21_FilterFlagFromEntry ==
    FilterReconciled
    => \A k \in DOMAIN Val(batches[loc.batch_id].output) :
          LET e == Val(batches[loc.batch_id].output)[k]
          IN  /\ articles[e.custom_id].cultural_relevant # NULL
              /\ articles[e.custom_id].cultural_relevant = Some(ExpectedFlag(e))

C21_Witness ==
    /\ FilterReconciled
    /\ \E j, k \in DOMAIN Val(batches[loc.batch_id].output) :
         LET out == Val(batches[loc.batch_id].output)
         IN  /\ out[j].kind = "error"
             /\ articles[out[j].custom_id].cultural_relevant = Some(1)
             /\ out[k].kind = "ok" /\ out[k].content = "NO"
             /\ articles[out[k].custom_id].cultural_relevant = Some(0)

----------------------------------------------------------------------------
(* Claims about the clustering run *)

\* A run of run_topic_modeling.py has fitted the model and written the topics.
Clustered ==
    pc = "done" /\ loc.script = "run_topic_modeling" /\ loc.outcome = "clustered"

\* The records a clustering run is to take: a summary longer than 50 and a
\* relevance flag of 1 or none.
ClusterInput ==
    {i \in DOMAIN articles :
        /\ articles[i].summary # NULL
        /\ Val(articles[i].summary) > 50
        /\ articles[i].cultural_relevant \in {Some(1), NULL}}

\* C22: when a clustering run has ended, its documents were exactly the
\* records with a summary longer than 50 and flag 1 or null, each once, and
\* each of them has as cluster id the topic returned for its document, not
\* null (an outlier has -1).
C22_TopicsWrittenById ==
    Clustered
    => /\ Range(loc.documents) = ClusterInput
       /\ Len(loc.documents) = Cardinality(ClusterInput)
       /\ \A k \in DOMAIN loc.documents :
             /\ articles[loc.documents[k]].topic # NULL
             /\ articles[loc.documents[k]].topic = Some(loc.topics[k])

C22_Witness ==
    /\ Clustered
    /\ \E i, j \in ClusterInput :
         articles[i].topic = Some(-1) /\ articles[j].topic = Some(0)
    /\ \E i \in DOMAIN articles : articles[i].cultural_relevant = Some(0)
    /\ \E i \in ClusterInput : articles[i].cultural_relevant = NULL

\* C28: when a clustering run has ended, every record with a cluster id was
\* among the documents of that run.
C28_TopicOnlyOnLatestInput ==
    Clustered
    => \A i \in DOMAIN articles :
          articles[i].topic # NULL => i \in Range(loc.documents)

\* C29: when a clustering run has ended, the embedding it used for each
\* document was computed from that document's current summary.
C29_EmbeddingOfOwnDocument ==
    Clustered
    => \A k \in DOMAIN loc.documents :
          /\ loc.embeddings[k].id = loc.documents[k]
          /\ Some(loc.embeddings[k].summary) = articles[loc.documents[k]].summary

----------------------------------------------------------------------------
(* Claims about google_search.py *)

\* The row that the last item of a search was stored as (when it was added).
LastStored ==
    CHOOSE row \in Range(search_results) : row.link = loc.last.link

\* C23: the date stored for an added item whose date string is 'N days ago'
\* is the time of the parse minus N days (N times 86400 seconds), for
\* 'yesterday' it is that time minus one day, and for a string that is no
\* date it is the string itself.
C23_DateNormalized ==
    ("last" \in DOMAIN loc /\ loc.last.added)
    => LET d == loc.last.date_string
           T == loc.last.now
       IN  /\ (d.form = "ago" /\ d.unit = "day")
                 => LastStored.date = [iso |-> T - d.amount * 86400]
           /\ (d.form = "word" /\ d.word = "yesterday")
                 => LastStored.date = [iso |-> T - 86400]
           /\ d.form = "other" => LastStored.date = d

C23_Witness ==
    /\ "last" \in DOMAIN loc /\ loc.last.added
    /\ loc.last.date_string = [form |-> "ago", amount |-> 2, unit |-> "day"]
    /\ LastStored.date = [iso |-> loc.last.now - 172800]

----------------------------------------------------------------------------
(* Claims about statuses, selections and stage order *)

\* C24: in every state, a record with scrape status 'success' has a text and
\* a scrape time, one with scrape status 'no_content' or error has no text;
\* a record with summary status 'success' has a summary and a summary time,
\* one with an error summary status has no summary.
C24_StatusMatchesOutput ==
    \A i \in DOMAIN articles :
        LET a == articles[i]
        IN  /\ a.scrape_status = Some("success")
                  => (a.text # NULL /\ a.scraped_at # NULL)
            /\ a.scrape_status \in {Some("no_content"), Some("error")}
                  => a.text = NULL
            /\ a.summary_status = Some("success")
                  => (a.summary # NULL /\ a.summarized_at # NULL)
            /\ a.summary_status = Some("error") => a.summary = NULL

\* A step inside the loop of a synchronous run.
LoopStep == pc \in {"scrape", "summarize"} /\ pc' = pc

\* C25: the selection of a synchronous run is in ascending id order without
\* repetition and does not change during the run; every step of the loop
\* attempts the record at the loop's position, touches no other record and
\* moves the position on by one, whether the attempt succeeded or failed;
\* the run ends only past the last selected record.
C25_EachSelectedOnceInOrder ==
    [][/\ LoopStep
          => /\ loc'.selected = loc.selected
             /\ loc'.idx = loc.idx + 1
             /\ loc.idx \in DOMAIN loc.selected
             /\ \A i \in DOMAIN articles :
                   i # loc.selected[loc.idx] => articles'[i] = articles[i]
             /\ \A j, k \in DOMAIN loc.selected :
                   j < k => loc.selected[j] < loc.selected[k]
       /\ (pc \in {"scrape", "summarize"} /\ pc' = "done"
             /\ loc'.outcome = "complete")
          => loc.idx = Len(loc.selected) + 1]_vars

C25_Witness ==
    /\ pc = "done"
    /\ loc.script = "summarize_articles"
    /\ loc.outcome = "complete"
    /\ Len(loc.selected) = 2
    /\ articles[loc.selected[1]].summary_status = Some("error")
    /\ articles[loc.selected[2]].summary_status = Some("success")

\* The record carries the handle of a summarization job that was submitted
\* and is neither reconciled for this record nor failed.
OutstandingSummary(a) ==
    /\ a.batch_id # NULL
    /\ a.summary_status = Some("batch_submitted")
    /\ batches[Val(a.batch_id)].status \in {"in_progress", "completed"}

\* C26: when summarize_batch_prepare.py has made its selection, no selected
\* record carries the handle of an outstanding summarization job.
C26_OutstandingNotSelected ==
    (pc = "done" /\ loc.script = "summarize_batch_prepare")
    => \A k \in DOMAIN loc.selected :
          ~OutstandingSummary(articles[loc.selected[k]])

\* C27: in every state, a record with scrape status 'success' and no summary
\* yet has a text that the summarize selection accepts (longer than 200), and
\* a record with summary status 'success' and no relevance flag yet has a
\* summary that the filter selection accepts (longer than 50).
C27_SuccessFeedsNextStage ==
    \A i \in DOMAIN articles :
        LET a == articles[i]
        IN  /\ (a.scrape_status = Some("success") /\ a.summary = NULL)
                  => (a.text # NULL /\ Val(a.text) > 200)
            /\ (a.summary_status = Some("success") /\ a.cultural_relevant = NULL)
                  => (a.summary # NULL /\ Val(a.summary) > 50)

----------------------------------------------------------------------------
(* run_search: pagination and the counts it returns *)

\* The search script alone, run up to MaxRuns times on a store that starts
\* empty; each run_search stops at its summary before it returns.
SearchInit ==
    /\ search_results = <<>>
    /\ articles = <<>>
    /\ csv = <<>>
    /\ pc = "idle"
    /\ loc = Idle
    /\ runs = 0
    /\ prev = [s \in Importers |-> NULL]
    /\ batches = <<>>
    /\ files = NoFiles
    /\ columns = {}

SearchNext ==
    \/ GoogleSearchStart /\ UNCHANGED <<batches, files, columns>>
    \/ SearchStopSummary /\ UNCHANGED <<batches, files, columns>>
    \/ SearchPageSummary /\ UNCHANGED <<batches, files, columns>>
    \/ SearchSummary     /\ UNCHANGED <<batches, files, columns>>

SpecSearch == SearchInit /\ [][SearchNext]_vars

\* run_search is about to request a page.
InSearch == pc = "run_search" /\ loc.script = "google_search"

\* run_search is about to return its counts.
Returning == pc = "search_summary"

\* C30: run_search requests pages at start offsets 0, 10, 20, ... in order,
\* attempts to insert every item of each fetched page, and the counts it
\* returns satisfy new + duplicate = number of items on the fetched pages.
C30_CountsCoverFetchedPages ==
    /\ InSearch => /\ loc.start = 10 * loc.total_pages_fetched
                   /\ loc.new_count + loc.duplicate_count = loc.page_items
    /\ Returning => loc.new_count + loc.duplicate_count = loc.page_items

====
